---- MODULE Spec2Model ----
(***************************************************************************)
(* The HTML parser of src/src/html_parse.rs as a state machine.            *)
(*                                                                         *)
(* A character is a one-character string, a Rust String is a sequence of   *)
(* characters.  `chars` is the Peekable<Chars> cursor (the characters not  *)
(* yet consumed), `node_q` the queue of closing-tag names, `stack` the     *)
(* call stack of parse_nodes / parse_node activations with their locals,   *)
(* `content` the local string of the running text or comment scanner,      *)
(* `pc` the place of the running activation and `result` the Vec<Node>     *)
(* returned by the top-level parse_nodes.  One action is one loop          *)
(* iteration, one loop exit or one straight-line block of the source.      *)
(*                                                                         *)
(* StyledNode::get_styles of src/src/style.rs is a second state machine:   *)
(* `element` and `stylesheet` are its arguments, `styles` its PropertyMap, *)
(* `rule` and `selector` the places of its two loops.                      *)
(***************************************************************************)
EXTENDS Integers, Sequences, FiniteSets, TLC

VARIABLES input, chars, node_q, stack, pc, content, result,
          element, stylesheet, styles, rule, selector

vars == <<input, chars, node_q, stack, pc, content, result,
          element, stylesheet, styles, rule, selector>>

----------------------------------------------------------------------------
(* Characters *)

Upper == {"A", "B", "H"}
Alnum ==
    {"a", "b", "p", "x", "1", "d", "e", "h", "i", "l", "o", "r", "v", "w"}
    \cup Upper
Whitespace == {" ", "\n"}
Char ==
    Alnum \cup Whitespace \cup {"<", ">", "/", "!", "-", "=", "\"", "'", ","}

\* char::to_lowercase on the characters of the model
LowerChar(c) ==
    IF c = "A" THEN "a" ELSE IF c = "B" THEN "b" ELSE IF c = "H" THEN "h" ELSE c

to_lowercase(s) == [i \in 1..Len(s) |-> LowerChar(s[i])]

\* a tag-name test that also lets '-' and '!' through
is_valid_tag_name_wide == Alnum \cup {"-", "!"}

is_valid_tag_name == Alnum

is_control == {"\n"}

is_excluded_name == {" ", "\"", "'", ">", "/", "="}

is_valid_attr_name == (Char \ is_excluded_name) \ is_control

\* (the grave accent, also refused by the source, is no character of the model)
is_valid_attr_value == Char \ {" ", "\"", "'", "=", "<", ">"}

----------------------------------------------------------------------------
(* The cursor: peek, next, consume_while *)

\* self.chars.peek().map_or(false, |c| *c == ch)
PeekIs(cs, ch) == cs # <<>> /\ Head(cs) = ch

\* self.chars.peek().map_or(false, |c| *c != ch)
PeekIsNot(cs, ch) == cs # <<>> /\ Head(cs) # ch

\* self.chars.next(): nothing happens at the end of the input
NextChar(cs) == IF cs = <<>> THEN <<>> ELSE Tail(cs)

\* consume_while(condition), the condition given as the set of characters it
\* accepts: the consumed run and the cursor after it
consume_while(cond, cs) ==
    LET stops == {i \in 1..Len(cs) : cs[i] \notin cond}
        k == IF stops = {} THEN Len(cs)
             ELSE (CHOOSE i \in stops : \A j \in stops : i <= j) - 1
    IN  [run |-> SubSeq(cs, 1, k), rest |-> SubSeq(cs, k + 1, Len(cs))]

----------------------------------------------------------------------------
(* dom::Node *)

Element(tag_name, attributes, children) ==
    [node_type |-> <<"Element", tag_name, attributes>>, children |-> children]

Text(text) == [node_type |-> <<"Text", text>>, children |-> <<>>]

Comment(text) == [node_type |-> <<"Comment", text>>, children |-> <<>>]

IsElement(n) == n.node_type[1] = "Element"
IsText(n) == n.node_type[1] = "Text"
IsComment(n) == n.node_type[1] = "Comment"

\* AttrMap::new and AttrMap::insert (a HashMap: the last insert of a key wins)
EmptyAttrMap == <<>>

AttrInsert(m, name, value) ==
    [k \in (DOMAIN m) \cup {name} |-> IF k = name THEN value ELSE m[k]]

\* Vec::insert(index, x), index counted from 0
VecInsert(v, index, x) ==
    SubSeq(v, 1, index) \o <<x>> \o SubSeq(v, index + 1, Len(v))

----------------------------------------------------------------------------
(* Activations on the call stack *)

NodesFrame(nodes) == [fn |-> "parse_nodes", nodes |-> nodes]

NodeFrame(tagname, attributes, children) ==
    [fn |-> "parse_node", tagname |-> tagname, attributes |-> attributes,
     children |-> children]

Top(st) == st[Len(st)]

Pop(st) == SubSeq(st, 1, Len(st) - 1)

SetTop(st, f) == [st EXCEPT ![Len(st)] = f]

\* nodes.push(x) on the parse_nodes activation on top of the stack
PushNode(st, n) == SetTop(st, NodesFrame(Append(Top(st).nodes, n)))

\* The program state as one record, so that the steps are functions of it
St == [chars |-> chars, node_q |-> node_q, stack |-> stack, pc |-> pc,
       content |-> content, result |-> result]

HtmlParser_new(full_html) ==
    [chars |-> full_html, node_q |-> <<>>, stack |-> <<NodesFrame(<<>>)>>,
     pc |-> "parse_nodes", content |-> <<>>, result |-> <<>>]

----------------------------------------------------------------------------
(* parse_nodes *)

\* nodes is returned (line 153): to the caller of the parser, or to the
\* parse_node that asked for its children (line 213), which builds its Node
\* (line 214) and returns it to line 130
return_nodes(s) ==
    LET nodes == Top(s.stack).nodes IN
    IF Len(s.stack) = 1
    THEN [s EXCEPT !.stack = <<>>, !.pc = "done", !.result = nodes]
    ELSE LET below == Pop(s.stack)
             e == Top(below)
         IN  [s EXCEPT !.stack = SetTop(below,
                                   NodeFrame(e.tagname, e.attributes, nodes)),
                       !.pc = "reconcile"]

\* a closing tag that returns an empty list instead of the nodes scanned
close_tag_returns_empty(s, cs) ==
    LET c1 == consume_while(Whitespace, NextChar(cs)).rest
        close_tag_name == consume_while(is_valid_tag_name, c1)
        c2 == NextChar(consume_while(Char \ {">"}, close_tag_name.rest).rest)
    IN  return_nodes([s EXCEPT !.chars = c2,
                               !.node_q = Append(s.node_q, close_tag_name.run),
                               !.stack = SetTop(s.stack, NodesFrame(<<>>))])

\* a closing tag that puts its name at the front of the queue
close_tag_push_front(s, cs) ==
    LET c1 == consume_while(Whitespace, NextChar(cs)).rest
        close_tag_name == consume_while(is_valid_tag_name, c1)
        c2 == NextChar(consume_while(Char \ {">"}, close_tag_name.rest).rest)
    IN  return_nodes([s EXCEPT !.chars = c2,
                               !.node_q = <<close_tag_name.run>> \o s.node_q])

\* lines 117-125: the closing tag after "</"
close_tag(s, cs) ==
    LET c1 == consume_while(Whitespace, NextChar(cs)).rest
        close_tag_name == consume_while(is_valid_tag_name, c1)
        c2 == NextChar(consume_while(Char \ {">"}, close_tag_name.rest).rest)
    IN  return_nodes([s EXCEPT !.chars = c2,
                               !.node_q = Append(s.node_q, close_tag_name.run)])

\* lines 113-151: one iteration of the loop, up to the call it makes
parse_nodes_iter(s) ==
    LET c1 == consume_while(Whitespace, s.chars).rest IN
    IF PeekIs(c1, "<")
    THEN LET c2 == NextChar(c1) IN
         IF PeekIs(c2, "/") THEN close_tag(s, c2)
         ELSE IF PeekIs(c2, "!")
         THEN [s EXCEPT !.chars = NextChar(c2), !.pc = "parse_comment_node",
                        !.content = <<>>]
         ELSE [s EXCEPT !.chars = c2, !.pc = "parse_node",
                        !.stack = Append(s.stack,
                                         NodeFrame(<<>>, EmptyAttrMap, <<>>))]
    ELSE [s EXCEPT !.chars = c1, !.pc = "parse_text_node", !.content = <<>>]

\* a reconciliation that leaves the matched name in the queue
reconcile_nodes_keep_front(nodes, tag_name, attributes, children, q) ==
    LET insert_index == Len(nodes)
        mismatch == Len(q) > 0 /\ tag_name # Head(q)
        node == IF mismatch THEN Element(tag_name, attributes, <<>>)
                ELSE Element(tag_name, attributes, children)
        appended == IF mismatch THEN nodes \o children ELSE nodes
    IN  [nodes |-> VecInsert(appended, insert_index, node), node_q |-> q]

\* a reconciliation that pushes the element instead of inserting it at
\* insert_index
reconcile_nodes_push(nodes, tag_name, attributes, children, q) ==
    LET mismatch == Len(q) > 0 /\ tag_name # Head(q)
        node == IF mismatch THEN Element(tag_name, attributes, <<>>)
                ELSE Element(tag_name, attributes, children)
        appended == IF mismatch THEN nodes \o children ELSE nodes
    IN  [nodes |-> Append(appended, node),
         node_q |-> IF Len(q) > 0 /\ ~mismatch THEN Tail(q) ELSE q]

\* lines 130-147: the element returned by parse_node against the queue
\* lines 130-147 without line 142: the children of a demoted element are dropped
reconcile_nodes_drop_children(nodes, tag_name, attributes, children, q) ==
    LET insert_index == Len(nodes)
        mismatch == Len(q) > 0 /\ tag_name # Head(q)
        node == IF mismatch THEN Element(tag_name, attributes, <<>>)
                ELSE Element(tag_name, attributes, children)
    IN  [nodes |-> VecInsert(nodes, insert_index, node),
         node_q |-> IF Len(q) > 0 /\ ~mismatch THEN Tail(q) ELSE q]

\* lines 130-147 without line 143: the name taken from the queue is not put back
reconcile_nodes_no_reinsert(nodes, tag_name, attributes, children, q) ==
    LET insert_index == Len(nodes)
        mismatch == Len(q) > 0 /\ tag_name # Head(q)
        node == IF mismatch THEN Element(tag_name, attributes, <<>>)
                ELSE Element(tag_name, attributes, children)
        appended == IF mismatch THEN nodes \o children ELSE nodes
    IN  [nodes |-> VecInsert(appended, insert_index, node),
         node_q |-> IF Len(q) > 0 THEN Tail(q) ELSE q]

reconcile_nodes(nodes, tag_name, attributes, children, q) ==
    LET insert_index == Len(nodes)
        mismatch == Len(q) > 0 /\ tag_name # Head(q)
        node == IF mismatch THEN Element(tag_name, attributes, <<>>)
                ELSE Element(tag_name, attributes, children)
        appended == IF mismatch THEN nodes \o children ELSE nodes
    IN  [nodes |-> VecInsert(appended, insert_index, node),
         node_q |-> IF Len(q) > 0 /\ ~mismatch THEN Tail(q) ELSE q]

reconcile(s) ==
    LET e == Top(s.stack)
        below == Pop(s.stack)
        r == reconcile_nodes(Top(below).nodes, e.tagname, e.attributes,
                             e.children, s.node_q)
    IN  [s EXCEPT !.stack = SetTop(below, NodesFrame(r.nodes)),
                  !.node_q = r.node_q, !.pc = "parse_nodes"]

----------------------------------------------------------------------------
(* parse_node, parse_attributes, parse_attr_value *)

\* line 209, and line 326
parse_node_tagname(s) ==
    LET tagname == consume_while(is_valid_tag_name, s.chars) IN
    [s EXCEPT !.chars = tagname.rest, !.pc = "parse_attributes",
              !.stack = SetTop(s.stack,
                               NodeFrame(tagname.run, EmptyAttrMap, <<>>))]

\* lines 349-361
parse_attr_value(cs) ==
    LET c1 == consume_while(Whitespace, cs).rest IN
    IF PeekIs(c1, "\"") \/ PeekIs(c1, "'")
    THEN LET ret == consume_while(Char \ {Head(c1)}, NextChar(c1))
         IN  [run |-> ret.run, rest |-> NextChar(ret.rest)]
    ELSE consume_while(is_valid_attr_value, c1)

\* an iteration that inserts the name as scanned, not case-folded
attributes_iter_no_fold(attributes, cs) ==
    LET name == consume_while(is_valid_attr_name,
                              consume_while(Whitespace, cs).rest)
        c1 == consume_while(Whitespace, name.rest).rest
    IN  IF PeekIs(c1, "=")
        THEN LET s == parse_attr_value(
                          consume_while(Whitespace, NextChar(c1)).rest)
                 c2 == consume_while(Char \ (Whitespace \cup {">"}),
                                     s.rest).rest
             IN  [attributes |-> AttrInsert(attributes, name.run, s.run),
                  rest |-> consume_while(Whitespace, c2).rest]
        ELSE [attributes |-> AttrInsert(attributes, name.run, <<>>),
              rest |-> c1]

\* lines 329-343: one iteration of the loop of parse_attributes
\* lines 328-344 with a '/' at the place of a name consumed
attributes_iter_skips_slash(attributes, cs) ==
    LET c0 == consume_while(Whitespace, cs).rest
        name == consume_while(is_valid_attr_name,
                              IF PeekIs(c0, "/") THEN NextChar(c0) ELSE c0)
        c1 == consume_while(Whitespace, name.rest).rest
    IN  IF PeekIs(c1, "=")
        THEN LET s == parse_attr_value(
                          consume_while(Whitespace, NextChar(c1)).rest)
                 c2 == consume_while(Char \ (Whitespace \cup {">"}),
                                     s.rest).rest
             IN  [attributes |-> AttrInsert(attributes,
                                            to_lowercase(name.run), s.run),
                  rest |-> consume_while(Whitespace, c2).rest]
        ELSE [attributes |-> AttrInsert(attributes,
                                        to_lowercase(name.run), <<>>),
              rest |-> c1]

attributes_iter(attributes, cs) ==
    LET name == consume_while(is_valid_attr_name,
                              consume_while(Whitespace, cs).rest)
        c1 == consume_while(Whitespace, name.rest).rest
    IN  IF PeekIs(c1, "=")
        THEN LET s == parse_attr_value(
                          consume_while(Whitespace, NextChar(c1)).rest)
                 c2 == consume_while(Char \ (Whitespace \cup {">"}),
                                     s.rest).rest
             IN  [attributes |-> AttrInsert(attributes,
                                            to_lowercase(name.run), s.run),
                  rest |-> consume_while(Whitespace, c2).rest]
        ELSE [attributes |-> AttrInsert(attributes,
                                        to_lowercase(name.run), <<>>),
              rest |-> c1]

parse_attributes_iter(s) ==
    LET e == Top(s.stack)
        r == attributes_iter(e.attributes, s.chars)
    IN  [s EXCEPT !.chars = r.rest,
                  !.stack = SetTop(s.stack,
                                   NodeFrame(e.tagname, r.attributes, <<>>))]

\* lines 345-346 and line 213: the '>' is consumed, parse_nodes is called
parse_attributes_exit(s) ==
    [s EXCEPT !.chars = NextChar(s.chars), !.pc = "parse_nodes",
              !.stack = Append(s.stack, NodesFrame(<<>>))]

----------------------------------------------------------------------------
(* parse_text_node *)

\* lines 221-226: one iteration of the loop
text_iter(text_content, cs) ==
    LET whitespace == consume_while(Whitespace, cs)
        text_part == consume_while(Char \ (Whitespace \cup {"<"}),
                                   whitespace.rest)
    IN  [content |-> (IF Len(whitespace.run) > 0
                      THEN Append(text_content, " ") ELSE text_content)
                     \o text_part.run,
         rest |-> text_part.rest]

parse_text_node_iter(s) ==
    LET r == text_iter(s.content, s.chars) IN
    [s EXCEPT !.chars = r.rest, !.content = r.content]

\* line 228 and line 150
parse_text_node_return(s) ==
    [s EXCEPT !.stack = PushNode(s.stack, Text(s.content)),
              !.content = <<>>, !.pc = "parse_nodes"]

----------------------------------------------------------------------------
(* parse_comment_node *)

\* line 322 (and 240, 244, 248, 255, 272, 286) with line 128: the Comment is
\* returned and pushed on the nodes of the calling parse_nodes
return_comment(s, cs, comment_content) ==
    [s EXCEPT !.chars = cs, !.content = <<>>, !.pc = "parse_nodes",
              !.stack = PushNode(s.stack, Comment(comment_content))]

\* lines 232-259 with the '>' of "<!-->" left before the cursor
parse_comment_open_keeps_gt(s) ==
    LET c0 == s.chars IN
    IF PeekIs(c0, "-")
    THEN LET c1 == NextChar(c0) IN
         IF PeekIs(c1, "-")
         THEN LET c2 == NextChar(c1) IN
              IF PeekIs(c2, ">") THEN return_comment(s, c2, <<>>)
              ELSE IF PeekIs(c2, "-")
              THEN LET c3 == NextChar(c2) IN
                   IF PeekIs(c3, ">") THEN return_comment(s, NextChar(c3), <<>>)
                   ELSE [s EXCEPT !.chars = c3, !.content = <<"-">>,
                                  !.pc = "comment_loop"]
              ELSE [s EXCEPT !.chars = c2, !.content = <<>>,
                             !.pc = "comment_loop"]
         ELSE return_comment(s, consume_while(Char \ {">"}, c1).rest, <<>>)
    ELSE return_comment(s, consume_while(Char \ {">"}, c0).rest, <<>>)

\* lines 232-259: what stands between "<!" and the loop
parse_comment_open(s) ==
    LET c0 == s.chars IN
    IF PeekIs(c0, "-")
    THEN LET c1 == NextChar(c0) IN
         IF PeekIs(c1, "-")
         THEN LET c2 == NextChar(c1) IN
              IF PeekIs(c2, ">") THEN return_comment(s, NextChar(c2), <<>>)
              ELSE IF PeekIs(c2, "-")
              THEN LET c3 == NextChar(c2) IN
                   IF PeekIs(c3, ">") THEN return_comment(s, NextChar(c3), <<>>)
                   ELSE [s EXCEPT !.chars = c3, !.content = <<"-">>,
                                  !.pc = "comment_loop"]
              ELSE [s EXCEPT !.chars = c2, !.content = <<>>,
                             !.pc = "comment_loop"]
         ELSE return_comment(s, consume_while(Char \ {">"}, c1).rest, <<>>)
    ELSE return_comment(s, consume_while(Char \ {">"}, c0).rest, <<>>)

\* lines 276-299: after "<!" with a space as the next character
comment_lt_bang_space(comment_content, cs) ==
    LET c1 == NextChar(cs) IN
    IF PeekIs(c1, "-")
    THEN LET c2 == NextChar(c1) IN
         IF PeekIs(c2, "-")
         THEN LET c3 == NextChar(c2) IN
              IF PeekIs(c3, "-")
              THEN LET c4 == NextChar(c3) IN
                   IF PeekIs(c4, ">")
                   THEN [content |-> <<>>, rest |-> NextChar(c4),
                         exit |-> "return"]
                   ELSE [content |-> comment_content
                                     \o <<"<", "!", " ", "-", "-">>,
                         rest |-> c4, exit |-> "loop"]
              ELSE [content |-> comment_content \o <<"<", "!", " ", "-">>,
                    rest |-> c3, exit |-> "loop"]
         ELSE [content |-> comment_content \o <<"<", "!", " ">>,
               rest |-> c2, exit |-> "loop"]
    ELSE [content |-> comment_content, rest |-> c1, exit |-> "loop"]

\* lines 263-305: after a '<' in the body
comment_lt(comment_content, cs) ==
    LET c1 == NextChar(cs) IN
    IF PeekIs(c1, "!")
    THEN LET c2 == NextChar(c1) IN
         IF PeekIs(c2, "-")
         THEN LET c3 == NextChar(c2) IN
              IF PeekIs(c3, "-")
              THEN [content |-> <<>>,
                    rest |-> consume_while(Char \ {">"}, c3).rest,
                    exit |-> "return"]
              ELSE [content |-> comment_content \o <<"<", "!", "-">>,
                    rest |-> c3, exit |-> "loop"]
         ELSE IF PeekIs(c2, " ") THEN comment_lt_bang_space(comment_content, c2)
         ELSE [content |-> comment_content \o <<"<", "!">>, rest |-> c2,
               exit |-> "loop"]
    ELSE [content |-> Append(comment_content, "<"), rest |-> c1,
          exit |-> "loop"]

\* lines 306-319: after a '-' in the body
comment_dash(comment_content, cs) ==
    LET c1 == NextChar(cs) IN
    IF PeekIs(c1, "-")
    THEN LET c2 == NextChar(c1) IN
         IF PeekIs(c2, ">")
         THEN [content |-> comment_content, rest |-> NextChar(c2),
               exit |-> "return"]
         ELSE [content |-> comment_content \o <<"-", "-">>, rest |-> c2,
               exit |-> "loop"]
    ELSE [content |-> Append(comment_content, "-"), rest |-> c1,
          exit |-> "loop"]

\* lines 262-319: one iteration of the loop
comment_iter(comment_content, cs) ==
    LET run == consume_while(Char \ {"<", "-"}, cs)
        c == comment_content \o run.run
    IN  IF PeekIs(run.rest, "<") THEN comment_lt(c, run.rest)
        ELSE IF PeekIs(run.rest, "-") THEN comment_dash(c, run.rest)
        ELSE [content |-> c, rest |-> run.rest, exit |-> "loop"]

parse_comment_iter(s) ==
    LET r == comment_iter(s.content, s.chars) IN
    IF r.exit = "return" THEN return_comment(s, r.rest, r.content)
    ELSE [s EXCEPT !.chars = r.rest, !.content = r.content]

\* line 261 false, line 322
parse_comment_exit(s) == return_comment(s, s.chars, s.content)

----------------------------------------------------------------------------
(* The documents parsed *)

MaxLen == 4
MaxTokens == 5
MaxParts == 3
MaxBody == 3
MaxText == 4
MaxAttrs == 2

\* every sequence of at most n elements of cs
RECURSIVE Strings(_, _)
Strings(cs, n) ==
    IF n = 0 THEN {<<>>}
    ELSE LET shorter == Strings(cs, n - 1)
         IN  shorter \cup {Append(s, c) : s \in shorter, c \in cs}

RECURSIVE Concat(_)
Concat(parts) == IF parts = <<>> THEN <<>> ELSE Head(parts) \o Concat(Tail(parts))

Range(f) == {f[i] : i \in DOMAIN f}

OpenTag(name) == <<"<">> \o name \o <<">">>
CloseTag(name) == <<"<", "/">> \o name \o <<">">>

\* (1) every string of the characters the scanners branch on
ScanChars == {"<", ">", "/", "!", "-", " ", "\n", "=", "\"", "a", "B"}

AnyDocs == Strings(ScanChars, MaxLen)

\* (2) well-nested documents, as sequences of tokens
WNTokens ==
    { [kind |-> "open", name |-> <<"p">>, attributes |-> EmptyAttrMap,
       src |-> <<"<", "p", ">">>],
      [kind |-> "open", name |-> <<"b">>, attributes |-> (<<"a">> :> <<"x">>),
       src |-> <<"<", "b", " ", "a", "=", "x", ">">>],
      [kind |-> "close", name |-> <<"p">>, src |-> <<"<", "/", "p", ">">>],
      [kind |-> "close", name |-> <<"b">>, src |-> <<"<", "/", "b", ">">>],
      [kind |-> "text", text |-> <<"a">>, src |-> <<"a">>],
      [kind |-> "comment", text |-> <<"x">>,
       src |-> <<"<", "!", "-", "-", "x", "-", "-", ">">>] }

\* every opening tag is closed by a closing tag of the same name, in nested
\* order (open: the names of the elements open so far); no two texts in a row
RECURSIVE Nested(_, _)
Nested(ts, open) ==
    IF ts = <<>> THEN open = <<>>
    ELSE LET t == Head(ts) IN
         IF t.kind = "open" THEN Nested(Tail(ts), Append(open, t.name))
         ELSE IF t.kind = "close"
         THEN /\ open # <<>>
              /\ open[Len(open)] = t.name
              /\ Nested(Tail(ts), SubSeq(open, 1, Len(open) - 1))
         ELSE /\ ~(t.kind = "text" /\ Len(ts) > 1 /\ ts[2].kind = "text")
              /\ Nested(Tail(ts), open)

\* the tree a well-nested token sequence denotes: each element with the nodes
\* between its tags (levels: the open elements, each with its nodes so far)
RECURSIVE Forest(_, _)
Forest(ts, levels) ==
    IF ts = <<>> THEN levels[1].nodes
    ELSE LET t == Head(ts)
             n == Len(levels)
         IN  IF t.kind = "open"
             THEN Forest(Tail(ts), Append(levels, [open |-> t, nodes |-> <<>>]))
             ELSE IF t.kind = "close"
             THEN Forest(Tail(ts),
                         [SubSeq(levels, 1, n - 1) EXCEPT ![n - 1].nodes =
                             Append(@, Element(levels[n].open.name,
                                               levels[n].open.attributes,
                                               levels[n].nodes))])
             ELSE Forest(Tail(ts),
                         [levels EXCEPT ![n].nodes =
                             Append(@, IF t.kind = "text" THEN Text(t.text)
                                       ELSE Comment(t.text))])

TokenSource(ts) == Concat([i \in 1..Len(ts) |-> ts[i].src])

WellNestedTokens == {ts \in Strings(WNTokens, MaxTokens) : Nested(ts, <<>>)}

WellNestedDocs == {TokenSource(ts) : ts \in WellNestedTokens}

WellNestedTrees ==
    {<<TokenSource(ts), Forest(ts, <<[nodes |-> <<>>]>>)>> : ts \in WellNestedTokens}

\* (3) <t1><t2>X</t1>Y</t2>: t2 is closed after its parent
TagNames == {<<"p">>, <<"b">>, <<"B">>}

PlainTexts == {<<>>, <<"x">>, <<"x", " ", "a">>}

MisnestDoc(t1, t2, X, Y) ==
    OpenTag(t1) \o OpenTag(t2) \o X \o CloseTag(t1) \o Y \o CloseTag(t2)

MisnestDocs ==
    {MisnestDoc(t1, t2, X, Y) :
        t1 \in TagNames, t2 \in TagNames, X \in PlainTexts, Y \in PlainTexts}

\* (4) <p>T</p>, T a text with whitespace
TextBodies == Strings({" ", "\n", "a"}, MaxText)

TextDoc(T) == OpenTag(<<"p">>) \o T \o CloseTag(<<"p">>)

TextDocs == {TextDoc(T) : T \in TextBodies}

\* (5) D</x>, D made of tags, texts and comment delimiters
Parts ==
    { <<"<", "p", ">">>, <<"<", "b", ">">>, <<"<", "/", "p", ">">>, <<"a">>,
      <<" ">>, <<"<", "!", "-", "-">>, <<"-", "-", ">">>, <<"<", "b">> }

PartDocs == {Concat(ps) : ps \in Strings(Parts, MaxParts)}

CloseDocs == {D \o CloseTag(<<"x">>) : D \in PartDocs}

\* (6) <!--B-->
CommentBodies == Strings({"-", "a", "<", "!", " "}, MaxBody)

CommentDoc(B) == <<"<", "!", "-", "-">> \o B \o <<"-", "-", ">">>

CommentDocs == {CommentDoc(B) : B \in CommentBodies}

\* (7) <p attr ...>: name, name=value or name="value"
AttrNames == {<<"a">>, <<"A">>, <<"b", "A">>}
AttrValues == {<<"x">>, <<"A">>}

Attrs ==
    {[name |-> n, value |-> <<>>, src |-> <<" ">> \o n] : n \in AttrNames}
    \cup {[name |-> n, value |-> v, src |-> <<" ">> \o n \o <<"=">> \o v] :
            n \in AttrNames, v \in AttrValues}
    \cup {[name |-> n, value |-> v,
           src |-> <<" ">> \o n \o <<" ", "=", " ", "\"">> \o v \o <<"\"">>] :
            n \in AttrNames, v \in AttrValues}

AttrLists == Strings(Attrs, MaxAttrs)

AttrDoc(as) == <<"<", "p">> \o TokenSource(as) \o <<">">>

AttrDocs == {AttrDoc(as) : as \in AttrLists}

\* (8) <!-->R: the comment opener closed at once
EmptyComment == <<"<", "!", "-", "-", ">">>

EmptyCommentDocs ==
    {EmptyComment \o R : R \in PlainTexts \cup {OpenTag(t) : t \in TagNames}}

\* (9) <t/>R and <t />R: an opening tag with a '/' before its '>'
SelfClosingDocs ==
    {<<"<">> \o t \o sp \o <<"/", ">">> \o R :
        t \in TagNames, sp \in {<<>>, <<" ">>}, R \in PlainTexts}

\* (10) the example of the design comment (lines 67-98), on one line and as
\* the comment lays it out
Hello == <<"H", "e", "l", "l", "o", ",", " ">>
World == <<"w", "o", "r", "l", "d">>

DesignExample(nl, sp) ==
    OpenTag(<<"d", "i", "v">>) \o nl \o sp
    \o OpenTag(<<"p">>) \o Hello \o OpenTag(<<"b">>) \o World
    \o CloseTag(<<"p">>) \o <<"!">> \o CloseTag(<<"b">>)
    \o nl \o CloseTag(<<"d", "i", "v">>)

DesignExamples == {DesignExample(<<>>, <<>>), DesignExample(<<"\n">>, <<" ">>)}

\* (11) <t1></t2><t3>X</t3>: an element closed by its own name, after an
\* element closed by the name t2
StaleDoc(t1, t2, t3, X) ==
    OpenTag(t1) \o CloseTag(t2) \o OpenTag(t3) \o X \o CloseTag(t3)

StaleDocs ==
    {StaleDoc(t1, t2, t3, X) :
        t1 \in TagNames, t2 \in TagNames, t3 \in TagNames, X \in PlainTexts}

Documents ==
    AnyDocs \cup WellNestedDocs \cup MisnestDocs \cup TextDocs \cup CloseDocs
    \cup CommentDocs \cup AttrDocs \cup EmptyCommentDocs \cup SelfClosingDocs
    \cup DesignExamples \cup StaleDocs

----------------------------------------------------------------------------
(* The state machine *)

Apply(s) ==
    /\ chars' = s.chars
    /\ node_q' = s.node_q
    /\ stack' = s.stack
    /\ pc' = s.pc
    /\ content' = s.content
    /\ result' = s.result
    /\ input' = input
    /\ UNCHANGED <<element, stylesheet, styles, rule, selector>>

Init ==
    /\ input \in Documents
    /\ chars = input
    /\ node_q = <<>>
    /\ stack = <<NodesFrame(<<>>)>>
    /\ pc = "parse_nodes"
    /\ content = <<>>
    /\ result = <<>>
    /\ element = [tag_name |-> <<>>, attributes |-> EmptyAttrMap]
    /\ stylesheet = [rules |-> <<>>]
    /\ styles = <<>>
    /\ rule = 1
    /\ selector = 1

ParseNodesIter == pc = "parse_nodes" /\ chars # <<>> /\ Apply(parse_nodes_iter(St))

ParseNodesReturn == pc = "parse_nodes" /\ chars = <<>> /\ Apply(return_nodes(St))

Reconcile == pc = "reconcile" /\ Apply(reconcile(St))

ParseNodeTagName == pc = "parse_node" /\ Apply(parse_node_tagname(St))

ParseAttributesIter ==
    pc = "parse_attributes" /\ PeekIsNot(chars, ">") /\ Apply(parse_attributes_iter(St))

ParseAttributesExit ==
    pc = "parse_attributes" /\ ~PeekIsNot(chars, ">") /\ Apply(parse_attributes_exit(St))

ParseTextNodeIter ==
    pc = "parse_text_node" /\ PeekIsNot(chars, "<") /\ Apply(parse_text_node_iter(St))

ParseTextNodeReturn ==
    pc = "parse_text_node" /\ ~PeekIsNot(chars, "<") /\ Apply(parse_text_node_return(St))

ParseCommentOpen == pc = "parse_comment_node" /\ Apply(parse_comment_open(St))

ParseCommentIter == pc = "comment_loop" /\ chars # <<>> /\ Apply(parse_comment_iter(St))

ParseCommentExit == pc = "comment_loop" /\ chars = <<>> /\ Apply(parse_comment_exit(St))

\* The step the parser takes from s, as a function: the action enabled in s
Step(s) ==
    IF s.pc = "parse_nodes"
    THEN (IF s.chars # <<>> THEN parse_nodes_iter(s) ELSE return_nodes(s))
    ELSE IF s.pc = "reconcile" THEN reconcile(s)
    ELSE IF s.pc = "parse_node" THEN parse_node_tagname(s)
    ELSE IF s.pc = "parse_attributes"
    THEN (IF PeekIsNot(s.chars, ">") THEN parse_attributes_iter(s)
          ELSE parse_attributes_exit(s))
    ELSE IF s.pc = "parse_text_node"
    THEN (IF PeekIsNot(s.chars, "<") THEN parse_text_node_iter(s)
          ELSE parse_text_node_return(s))
    ELSE IF s.pc = "parse_comment_node" THEN parse_comment_open(s)
    ELSE IF s.pc = "comment_loop"
    THEN (IF s.chars # <<>> THEN parse_comment_iter(s)
          ELSE parse_comment_exit(s))
    ELSE s

\* The parser run from s for at most fuel steps
RECURSIVE Run(_, _)
Run(s, fuel) ==
    IF s.pc = "done" \/ fuel = 0 THEN s ELSE Run(Step(s), fuel - 1)

Next ==
    \/ ParseNodesIter
    \/ ParseNodesReturn
    \/ Reconcile
    \/ ParseNodeTagName
    \/ ParseAttributesIter
    \/ ParseAttributesExit
    \/ ParseTextNodeIter
    \/ ParseTextNodeReturn
    \/ ParseCommentOpen
    \/ ParseCommentIter
    \/ ParseCommentExit

Spec == Init /\ [][Next]_vars

----------------------------------------------------------------------------
(* style.rs: selector_matches and StyledNode::get_styles *)

\* Option<T>
None == <<>>
Some(x) == <<x>>

\* the words of s between spaces
RECURSIVE Words(_, _)
Words(s, word) ==
    IF s = <<>> THEN (IF word = <<>> THEN {} ELSE {word})
    ELSE IF Head(s) = " "
    THEN (IF word = <<>> THEN {} ELSE {word}) \cup Words(Tail(s), <<>>)
    ELSE Words(Tail(s), Append(word, Head(s)))

\* ElementData::get_id: the value of the id attribute, if present
get_id(e) ==
    IF <<"i", "d">> \in DOMAIN e.attributes
    THEN Some(e.attributes[<<"i", "d">>]) ELSE None

\* ElementData::get_classes: the tokens of the class attribute
get_classes(e) ==
    IF <<"c", "l", "a", "s", "s">> \in DOMAIN e.attributes
    THEN Words(e.attributes[<<"c", "l", "a", "s", "s">>], <<>>) ELSE {}

\* lines 163-201: the loop over selector.simple from its k-th entry on; an
\* entry of another tag name or another id is skipped (continue), an entry
\* whose classes the element all has ends the loop with true
RECURSIVE simple_matches_from(_, _, _)
simple_matches_from(e, simple_list, k) ==
    IF k > Len(simple_list) THEN FALSE
    ELSE LET simple == simple_list[k]
             id == get_id(e)
         IN  IF simple.tag_name # None /\ simple.tag_name[1] # e.tag_name
             THEN simple_matches_from(e, simple_list, k + 1)
             ELSE IF id # None /\ simple.id # None /\ id[1] # simple.id[1]
             THEN simple_matches_from(e, simple_list, k + 1)
             ELSE IF id = None /\ simple.id # None
             THEN simple_matches_from(e, simple_list, k + 1)
             ELSE IF \A c \in 1..Len(simple.classes) :
                         simple.classes[c] \in get_classes(e)
             THEN TRUE
             ELSE simple_matches_from(e, simple_list, k + 1)

selector_matches(e, sel) == simple_matches_from(e, sel.simple, 1)

\* an insertion that keeps the value a property already has
RECURSIVE insert_declarations_keep_first(_, _)
insert_declarations_keep_first(m, declarations) ==
    IF declarations = <<>> THEN m
    ELSE LET declar == Head(declarations) IN
         insert_declarations_keep_first(
             IF declar.property \in DOMAIN m THEN m
             ELSE AttrInsert(m, declar.property, declar.value),
             Tail(declarations))

\* lines 115-117: every declaration of the rule inserted, in order
RECURSIVE insert_declarations(_, _)
insert_declarations(m, declarations) ==
    IF declarations = <<>> THEN m
    ELSE LET declar == Head(declarations) IN
         insert_declarations(AttrInsert(m, declar.property, declar.value),
                             Tail(declarations))

\* the elements and stylesheets styled
MaxRules == 2

TagP == <<"p">>
TagB == <<"b">>
IdAttr == <<"i", "d">>
ClassAttr == <<"c", "l", "a", "s", "s">>

Elements ==
    { [tag_name |-> TagP, attributes |-> EmptyAttrMap],
      [tag_name |-> TagB, attributes |-> EmptyAttrMap],
      [tag_name |-> TagP, attributes |-> (IdAttr :> <<"i">>)],
      [tag_name |-> TagB, attributes |-> (ClassAttr :> <<"c", " ", "d">>)],
      [tag_name |-> TagB, attributes |-> (IdAttr :> <<"j">>) @@ (ClassAttr :> <<"d">>)],
      [tag_name |-> TagP,
       attributes |-> (IdAttr :> <<"i">>) @@ (ClassAttr :> <<"c", " ", "d">>)] }

\* p, #i.c and the compound b#j .c.d
Selectors ==
    { [simple |-> <<[tag_name |-> Some(TagP), id |-> None, classes |-> <<>>]>>],
      [simple |-> <<[tag_name |-> None, id |-> Some(<<"i">>),
                     classes |-> << <<"c">> >>]>>],
      [simple |-> <<[tag_name |-> Some(TagB), id |-> Some(<<"j">>),
                     classes |-> <<>>],
                    [tag_name |-> None, id |-> None,
                     classes |-> << <<"c">>, <<"d">> >>]>>] }

DeclarationLists ==
    { <<[property |-> "color", value |-> "red"]>>,
      <<[property |-> "color", value |-> "blue"],
        [property |-> "width", value |-> "1"]>>,
      <<[property |-> "width", value |-> "2"],
        [property |-> "width", value |-> "3"]>> }

Rules ==
    {[selectors |-> ss, declarations |-> ds] :
        ss \in {<<a>> : a \in Selectors}
                 \cup {ab \in Selectors \X Selectors : ab[1] # ab[2]},
        ds \in DeclarationLists}

Stylesheets == {[rules |-> rs] : rs \in Strings(Rules, MaxRules)}

InitStyle ==
    /\ element \in Elements
    /\ stylesheet \in Stylesheets
    /\ styles = <<>>
    /\ rule = 1
    /\ selector = 1
    /\ pc = "get_styles"
    /\ input = <<>>
    /\ chars = <<>>
    /\ node_q = <<>>
    /\ stack = <<>>
    /\ content = <<>>
    /\ result = <<>>

\* lines 114-120: one selector of the rule is tried; on a match the
\* declarations of the rule are inserted and the inner loop is left (break)
GetStylesSelector ==
    /\ pc = "get_styles"
    /\ rule <= Len(stylesheet.rules)
    /\ selector <= Len(stylesheet.rules[rule].selectors)
    /\ IF selector_matches(element, stylesheet.rules[rule].selectors[selector])
       THEN /\ styles' = insert_declarations(styles,
                                             stylesheet.rules[rule].declarations)
            /\ rule' = rule + 1
            /\ selector' = 1
       ELSE /\ selector' = selector + 1
            /\ UNCHANGED <<styles, rule>>
    /\ UNCHANGED <<element, stylesheet, pc, input, chars, node_q, stack, content,
                   result>>

\* line 114: the selectors of the rule are exhausted, none matched
GetStylesNextRule ==
    /\ pc = "get_styles"
    /\ rule <= Len(stylesheet.rules)
    /\ selector > Len(stylesheet.rules[rule].selectors)
    /\ rule' = rule + 1
    /\ selector' = 1
    /\ UNCHANGED <<element, stylesheet, styles, pc, input, chars, node_q, stack,
                   content, result>>

\* lines 113 and 123: the rules are exhausted, styles is returned
GetStylesReturn ==
    /\ pc = "get_styles"
    /\ rule > Len(stylesheet.rules)
    /\ pc' = "styled"
    /\ UNCHANGED <<element, stylesheet, styles, rule, selector, input, chars,
                   node_q, stack, content, result>>

NextStyle ==
    \/ GetStylesSelector
    \/ GetStylesNextRule
    \/ GetStylesReturn

SpecStyle == InitStyle /\ [][NextStyle]_vars

----------------------------------------------------------------------------
(* Termination and the cursor *)

LoopIteration ==
    ParseNodesIter \/ ParseAttributesIter \/ ParseTextNodeIter \/ ParseCommentIter

\* C1: for an input without the self-closing-slash defect (here: an input with
\* no '/' at all), every iteration of the loops of parse_nodes,
\* parse_attributes, parse_text_node and parse_comment_node consumes at least
\* one character or leaves the loop (by a call or a return).
C1_EveryIterationConsumes ==
    [][("/" \notin Range(input) /\ LoopIteration)
          => (Len(chars') < Len(chars) \/ pc' # pc)]_vars

\* C2: when the top-level parse_nodes returns, the cursor is exhausted.
C2_CursorExhausted == pc = "done" => chars = <<>>

----------------------------------------------------------------------------
(* Well-nested and misnested documents *)

\* C3: in a well-nested document every reconciliation finds the element's own
\* name at the front of the queue, every element keeps the nodes between its
\* tags in document order, and the queue is empty when the parse ends.
C3_WellNestedNeverMismatches ==
    input \in WellNestedDocs =>
        /\ pc = "reconcile" =>
              node_q # <<>> /\ Head(node_q) = Top(stack).tagname
        /\ pc = "done" =>
              node_q = <<>> /\ chars = <<>> /\ <<input, result>> \in WellNestedTrees

C3_Witness ==
    /\ pc = "done"
    /\ input \in WellNestedDocs
    /\ \E i \in 1..Len(result) :
          /\ IsElement(result[i])
          /\ \E j \in 1..Len(result[i].children) :
                /\ IsElement(result[i].children[j])
                /\ result[i].children[j].children # <<>>

TextNodes(X) == IF X = <<>> THEN <<>> ELSE <<Text(X)>>

\* C4: <t1><t2>X</t1>Y</t2> gives exactly one top-level node, Element t1 with
\* the children Element t2 (no children), the nodes of X, the nodes of Y, in
\* this order; t2 is left in the queue at the end of the parse.
C4_MisnestedExample ==
    pc = "done" => \A t1, t2 \in TagNames : \A X, Y \in PlainTexts :
        (t1 # t2 /\ input = MisnestDoc(t1, t2, X, Y)) =>
            /\ result = <<Element(t1, EmptyAttrMap,
                                  <<Element(t2, EmptyAttrMap, <<>>)>>
                                  \o TextNodes(X) \o TextNodes(Y))>>
            /\ node_q = <<t2>>
            /\ chars = <<>>

C4_Witness ==
    /\ pc = "done"
    /\ input = MisnestDoc(<<"p">>, <<"b">>, <<"x">>, <<"x", " ", "a">>)
    /\ Len(result) = 1
    /\ Len(result[1].children) = 3
    /\ node_q = <<<<"b">>>>

----------------------------------------------------------------------------
(* Text *)

\* each maximal run of whitespace replaced by one space, the rest verbatim
RECURSIVE Collapse(_)
Collapse(T) ==
    IF T = <<>> THEN <<>>
    ELSE LET c == T[Len(T)]
             front == Collapse(SubSeq(T, 1, Len(T) - 1))
         IN  IF c \notin Whitespace THEN Append(front, c)
             ELSE IF Len(T) > 1 /\ T[Len(T) - 1] \in Whitespace THEN front
             ELSE Append(front, " ")

\* C5: in <p>T</p>, the content of every Text node is T with each maximal run
\* of whitespace, a leading and a trailing one included, replaced by exactly
\* one space and everything else verbatim.
C5_WhitespaceCollapsed ==
    pc = "done" => \A T \in TextBodies :
        input = TextDoc(T) =>
            \A i \in 1..Len(result) : \A j \in 1..Len(result[i].children) :
                IsText(result[i].children[j]) =>
                    result[i].children[j].node_type[2] = Collapse(T)

----------------------------------------------------------------------------
(* A closing tag at the end of the input *)

MaxSteps == 60

\* the forest returned for the document D
Parse(D) == Run(HtmlParser_new(D), MaxSteps)

\* C6 as stated: for every D and a name x of no element of D (x matches no
\* open element), D</x> gives the forest of D.
C6_UnmatchedCloseDiscarded ==
    pc = "done" => \A D \in PartDocs :
        (input = D \o CloseTag(<<"x">>) /\ Parse(D).pc = "done")
            => result = Parse(D).result

\* cs is one closing tag </x>, x a tag name
IsCloseTag(cs) ==
    /\ Len(cs) >= 3
    /\ cs[1] = "<" /\ cs[2] = "/" /\ cs[Len(cs)] = ">"
    /\ \A i \in 3..(Len(cs) - 1) : cs[i] \in is_valid_tag_name

\* C6 amended: when the top-level loop of parse_nodes stands before a closing
\* tag </x> that ends the input (the document D before it ended after a
\* complete top-level node), the parse returns the forest of D, with the cursor
\* exhausted and x appended at the back of the queue.
C6_CloseAtTopLevelDiscarded ==
    [][(pc = "parse_nodes" /\ Len(stack) = 1 /\ IsCloseTag(chars)) =>
          LET D == SubSeq(input, 1, Len(input) - Len(chars))
              x == SubSeq(chars, 3, Len(chars) - 1)
          IN  /\ pc' = "done"
              /\ chars' = <<>>
              /\ node_q' = Append(node_q, x)
              /\ Parse(D).pc = "done"
              /\ result' = Parse(D).result]_vars

C6_Witness ==
    /\ pc = "done"
    /\ \E D \in PartDocs :
          /\ input = D \o CloseTag(<<"x">>)
          /\ result = Parse(D).result
          /\ Len(result) = 1
          /\ IsElement(result[1]) /\ result[1].children # <<>>
    /\ node_q = <<<<"x">>>>
    /\ chars = <<>>

----------------------------------------------------------------------------
(* Comments *)

\* the first "-->" of cs starts at index i
FirstCloserAt(cs, i) ==
    LET at(k) == k + 2 <= Len(cs) /\ cs[k] = "-" /\ cs[k + 1] = "-" /\ cs[k + 2] = ">"
    IN  at(i) /\ \A k \in 1..(i - 1) : ~at(k)

\* C7: for <!--B--> with the first "-->" after the opener being the final one,
\* the parse gives one Comment whose content is exactly B and the cursor is
\* left after that "-->".
C7_CommentVerbatim ==
    pc = "done" => \A B \in CommentBodies :
        (input = CommentDoc(B) /\ FirstCloserAt(B \o <<"-", "-", ">">>, Len(B) + 1))
            => result = <<Comment(B)>> /\ chars = <<>>

\* after "<!": the next character is not '-', or the one after it is not '-'
BogusComment ==
    /\ pc = "parse_comment_node"
    /\ ~(PeekIs(chars, "-") /\ PeekIs(NextChar(chars), "-"))

\* C8: a bogus comment returns an empty Comment and has consumed everything up
\* to and including the next '>'.
C8_BogusCommentConsumesGt ==
    [][BogusComment =>
          /\ pc' = "parse_nodes"
          /\ stack' = PushNode(stack, Comment(<<>>))
          /\ chars' = NextChar(consume_while(Char \ {">"}, chars).rest)]_vars

----------------------------------------------------------------------------
(* Attributes and names *)

\* the map the attribute list as denotes: lowercase names, the value of the
\* last occurrence of each
LastValue(as, key) ==
    LET occ == {i \in 1..Len(as) : to_lowercase(as[i].name) = key}
    IN  as[CHOOSE i \in occ : \A j \in occ : j <= i].value

AttrMapOf(as) ==
    [key \in {to_lowercase(as[i].name) : i \in 1..Len(as)} |-> LastValue(as, key)]

AttrMaps == {<<AttrDoc(as), AttrMapOf(as)>> : as \in AttrLists}

NoUpper(name) == \A i \in 1..Len(name) : name[i] \notin Upper

\* C9: the map of an opening tag has only lowercase keys; each value is as in
\* the source; a name occurring several times (after case folding) has one
\* entry, with the value of its last occurrence.
C9_AttributeMap ==
    /\ (pc = "parse_attributes" \/ pc = "reconcile") =>
          \A k \in DOMAIN Top(stack).attributes : NoUpper(k)
    /\ (input \in AttrDocs /\ pc = "done") =>
          /\ Len(result) = 1
          /\ <<input, result[1].node_type[3]>> \in AttrMaps

C9_Witness ==
    /\ pc = "done"
    /\ input = AttrDoc(<<[name |-> <<"A">>, value |-> <<"x">>,
                          src |-> <<" ", "A", "=", "x">>],
                         [name |-> <<"a">>, value |-> <<"A">>,
                          src |-> <<" ", "a", " ", "=", " ", "\"", "A", "\"">>]>>)
    /\ result[1].node_type[3] = (<<"a">> :> <<"A">>)

AttrNameOK(name) ==
    \A i \in 1..Len(name) :
        name[i] \notin is_control \cup {"\"", "'", "=", "/", ">", " "}

AlnumOnly(name) == \A i \in 1..Len(name) : name[i] \in Alnum

RECURSIVE NodeOK(_)
NodeOK(n) ==
    /\ IsElement(n) =>
          /\ AlnumOnly(n.node_type[2])
          /\ \A k \in DOMAIN n.node_type[3] : AttrNameOK(k)
    /\ IsText(n) => "<" \notin Range(n.node_type[2])
    /\ \A i \in 1..Len(n.children) : NodeOK(n.children[i])

FrameOK(f) ==
    IF f.fn = "parse_nodes" THEN \A i \in 1..Len(f.nodes) : NodeOK(f.nodes[i])
    ELSE /\ AlnumOnly(f.tagname)
         /\ \A k \in DOMAIN f.attributes : AttrNameOK(k)
         /\ \A i \in 1..Len(f.children) : NodeOK(f.children[i])

\* C10: every tag name and every queue entry is alphanumeric, no attribute
\* name holds a control character, a quote, '=', '/', '>' or a space, and no
\* Text content holds '<': in the tree returned and in the tree being built.
C10_NamesAndTexts ==
    /\ \A i \in 1..Len(node_q) : AlnumOnly(node_q[i])
    /\ \A i \in 1..Len(stack) : FrameOK(stack[i])
    /\ \A i \in 1..Len(result) : NodeOK(result[i])
    /\ pc = "parse_text_node" => "<" \notin Range(content)

C10_Witness ==
    /\ pc = "reconcile"
    /\ node_q # <<>> /\ node_q[1] # <<>>
    /\ Top(stack).tagname # <<>>
    /\ \E k \in DOMAIN Top(stack).attributes : k # <<>>
    /\ \E j \in 1..Len(Top(stack).children) : IsText(Top(stack).children[j])

----------------------------------------------------------------------------
(* The comment opener closed at once *)

\* C11: when the character after "<!--" is '>', parse_comment_node returns an
\* empty Comment to parse_nodes and the cursor stands after that '>'; the
\* document "<!-->" alone yields exactly one empty Comment.
C11_EmptyCommentConsumesGt ==
    [][/\ (pc = "parse_comment_node" /\ Len(chars) >= 3
           /\ SubSeq(chars, 1, 3) = <<"-", "-", ">">>)
          => /\ chars' = SubSeq(chars, 4, Len(chars))
             /\ pc' = "parse_nodes"
             /\ stack' = PushNode(stack, Comment(<<>>))
       /\ (input = EmptyComment /\ pc' = "done")
          => result' = <<Comment(<<>>)>>]_vars

C11_Witness ==
    /\ pc = "done"
    /\ input = EmptyComment \o <<"x">>
    /\ result = <<Comment(<<>>), Text(<<"x">>)>>

----------------------------------------------------------------------------
(* The input ending inside an opening tag *)

\* C12: when the input ends inside an opening tag or an attribute value (no
\* '>' is left before the cursor of parse_attributes), every step of the
\* attribute loop consumes, and the loop is left with the cursor at the end of
\* the input, the element then taking no children.
C12_UnterminatedTagConsumed ==
    [][(pc = "parse_attributes" /\ ">" \notin Range(chars))
          => \/ pc' = pc /\ Len(chars') < Len(chars)
             \/ /\ pc' = "parse_nodes"
                /\ chars' = <<>>
                /\ Top(stack').nodes = <<>>]_vars

----------------------------------------------------------------------------
(* The reconciliation of an element with the queue *)

----------------------------------------------------------------------------
(* The closing tag and the queue *)

\* the characters of cs from the first one that is not in skipped
RECURSIVE DropWhile(_, _)
DropWhile(cs, skipped) ==
    IF cs # <<>> /\ Head(cs) \in skipped THEN DropWhile(Tail(cs), skipped) ELSE cs

\* the longest prefix of cs made of characters of kept
RECURSIVE TakeWhile(_, _)
TakeWhile(cs, kept) ==
    IF cs # <<>> /\ Head(cs) \in kept
    THEN <<Head(cs)>> \o TakeWhile(Tail(cs), kept) ELSE <<>>

\* the loop of parse_nodes stands before "</", after whitespace or none
AtCloseTag ==
    /\ pc = "parse_nodes"
    /\ LET c == DropWhile(chars, Whitespace)
       IN  Len(c) >= 2 /\ c[1] = "<" /\ c[2] = "/"

\* C14: on "</" at any nesting level the scanner skips whitespace, reads the
\* name, discards everything through the next '>', appends the name at the
\* back of the one queue and returns at once the siblings accumulated at that
\* level (to the element waiting for its children, or as the result); at every
\* step the queue changes only by an append at the back or by the removal of
\* its front.
C14_ClosingTag ==
    [][/\ AtCloseTag =>
             LET c == DropWhile(Tail(Tail(DropWhile(chars, Whitespace))),
                                Whitespace)
                 name == TakeWhile(c, Alnum)
                 tail == DropWhile(c, Char \ {">"})
             IN  /\ node_q' = Append(node_q, name)
                 /\ chars' = (IF tail = <<>> THEN <<>> ELSE Tail(tail))
                 /\ IF Len(stack) = 1
                    THEN pc' = "done" /\ result' = Top(stack).nodes
                    ELSE /\ pc' = "reconcile"
                         /\ stack' = SetTop(Pop(stack),
                                [Top(Pop(stack)) EXCEPT !.children = Top(stack).nodes])
       /\ \/ node_q' = node_q
          \/ /\ Len(node_q') = Len(node_q) + 1
             /\ SubSeq(node_q', 1, Len(node_q)) = node_q
          \/ node_q # <<>> /\ node_q' = Tail(node_q)]_vars

\* <p><b>x</p>y</b>: the name b joins the queue behind the name p pushed two
\* levels down, and p is reconciled first
C14_Witness ==
    /\ pc = "reconcile"
    /\ node_q = << <<"p">>, <<"b">> >>
    /\ Top(stack).tagname = <<"p">>
    /\ Len(Top(stack).children) > 1

----------------------------------------------------------------------------
(* The '/' of a self-closing tag *)

\* the attribute loop stands before a '/'
AtSlash == pc = "parse_attributes" /\ PeekIs(chars, "/")

\* C15: with '/' as the next character of the attribute loop, an iteration
\* consumes nothing, inserts the entry ("", "") and leaves the loop where it
\* was, so that the loop stands before the same '/' for ever; the parse of
\* <t/> or <t />, with anything after it, never ends.
C15_SlashNeverTerminates ==
    [][/\ AtSlash =>
             /\ AtSlash'
             /\ chars' = chars
             /\ Top(stack').attributes =
                    AttrInsert(Top(stack).attributes, <<>>, <<>>)
       /\ input \in SelfClosingDocs =>
             /\ pc' # "done"
             /\ pc = "parse_attributes" => pc' = "parse_attributes"]_vars

\* <b />x: the loop before the '/', the entry ("", "") inserted
C15_Witness ==
    /\ AtSlash
    /\ input = <<"<", "b", " ", "/", ">", "x">>
    /\ chars = <<"/", ">", "x">>
    /\ Top(stack).attributes = (<<>> :> <<>>)

----------------------------------------------------------------------------
(* The lookahead after '<' in a comment body *)

\* C16: when an iteration of the comment loop meets '<' and the characters
\* after it complete no nested opener (the loop goes on), the content grows by
\* exactly the characters the iteration consumed, none lost and none added.
C16_LookaheadVerbatim ==
    [][(/\ pc = "comment_loop"
        /\ PeekIs(DropWhile(chars, Char \ {"<", "-"}), "<")
        /\ pc' = "comment_loop")
          => content' = content \o SubSeq(chars, 1, Len(chars) - Len(chars'))]_vars

----------------------------------------------------------------------------
(* The example of the design comment *)

\* C17: for <div><p>Hello, <b>world</p>!</b></div> the parser returns div with
\* the single child p, whose children begin with Text "Hello, ", Text "world"
\* and then the childless Element b.
C17_DesignExample ==
    (input \in DesignExamples /\ pc = "done") =>
        /\ Len(result) = 1
        /\ result[1].node_type = <<"Element", <<"d", "i", "v">>, EmptyAttrMap>>
        /\ Len(result[1].children) = 1
        /\ LET p == result[1].children[1] IN
              /\ p.node_type = <<"Element", <<"p">>, EmptyAttrMap>>
              /\ Len(p.children) >= 3
              /\ SubSeq(p.children, 1, 3) =
                    <<Text(Hello), Text(World),
                      Element(<<"b">>, EmptyAttrMap, <<>>)>>

----------------------------------------------------------------------------
(* The styles of an element *)

\* the rules of which at least one selector matches the element
MatchingRules ==
    {i \in 1..Len(stylesheet.rules) :
        \E j \in 1..Len(stylesheet.rules[i].selectors) :
            selector_matches(element, stylesheet.rules[i].selectors[j])}

\* the places of rule i that declare the property
DeclarationsOf(i, property) ==
    {d \in 1..Len(stylesheet.rules[i].declarations) :
        stylesheet.rules[i].declarations[d].property = property}

Max(S) == CHOOSE x \in S : \A y \in S : y <= x

\* the property map of the first n rules: the properties declared by the
\* matching rules among them, each with the value given by the last matching
\* rule that declares it
StylesOfRules(n) ==
    LET matching == MatchingRules \cap (1..n)
        properties ==
            UNION {{stylesheet.rules[i].declarations[d].property :
                       d \in 1..Len(stylesheet.rules[i].declarations)} :
                   i \in matching}
    IN  [property \in properties |->
            LET i == Max({m \in matching : DeclarationsOf(m, property) # {}})
            IN  stylesheet.rules[i].declarations[
                    Max(DeclarationsOf(i, property))].value]

\* C18: get_styles takes the rules in stylesheet order; a rule contributes its
\* declarations if and only if one of its selectors matches the element, and
\* is left at its first matching selector, so that it is applied once; the map
\* returned holds, for every property declared by a matching rule, the value
\* of the last matching rule that declares it.
C18_GetStyles ==
    [][/\ rule' \in {rule, rule + 1}
       /\ (/\ pc = "get_styles"
           /\ rule <= Len(stylesheet.rules)
           /\ selector <= Len(stylesheet.rules[rule].selectors)
           /\ selector_matches(element,
                               stylesheet.rules[rule].selectors[selector]))
             => rule' = rule + 1
       /\ styles' = StylesOfRules(rule' - 1)
       /\ pc' = "styled" => styles' = StylesOfRules(Len(stylesheet.rules))]_vars

\* two rules match, the second by both of its selectors; both declare color,
\* and the color returned is that of the second
C18_Witness ==
    /\ pc = "styled"
    /\ Len(stylesheet.rules) = 2
    /\ MatchingRules = {1, 2}
    /\ Len(stylesheet.rules[2].selectors) = 2
    /\ \A j \in 1..2 :
          selector_matches(element, stylesheet.rules[2].selectors[j])
    /\ stylesheet.rules[1].declarations = <<[property |-> "color", value |-> "red"]>>
    /\ DeclarationsOf(2, "color") # {}
    /\ styles["color"] = "blue"

----------------------------------------------------------------------------
(* No node lost, none duplicated *)

\* the node types of a forest in pre-order
RECURSIVE PreOrder(_)
PreOrder(nodes) ==
    IF nodes = <<>> THEN <<>>
    ELSE <<Head(nodes).node_type>> \o PreOrder(Head(nodes).children)
         \o PreOrder(Tail(nodes))

\* the nodes held by the activations of the stack, in pre-order: the nodes of
\* a parse_nodes, the element of a parse_node followed by its children
RECURSIVE StackOrder(_)
StackOrder(st) ==
    IF st = <<>> THEN <<>>
    ELSE LET f == Head(st) IN
         (IF f.fn = "parse_nodes" THEN PreOrder(f.nodes)
          ELSE <<<<"Element", f.tagname, f.attributes>>>> \o PreOrder(f.children))
         \o StackOrder(Tail(st))

\* the nodes created so far, as the parser holds them
Held == IF pc = "done" THEN PreOrder(result) ELSE StackOrder(stack)

\* l2 is l1 with one node of kind k added at the end
GrowsBy(l1, l2, k) ==
    /\ Len(l2) = Len(l1) + 1
    /\ SubSeq(l2, 1, Len(l1)) = l1
    /\ l2[Len(l2)][1] = k

\* C19: the pre-order sequence of the nodes held only grows at its end, by the
\* node just created: a Text with the content scanned, a Comment, or an
\* Element (whose name and attributes are then scanned); returns and
\* reconciliations leave the sequence as it is, and the forest returned holds
\* it.  So every node created is in the result exactly once, and the Text and
\* Comment nodes stand there in scan order.
C19_NoNodeLostOrDuplicated ==
    [][IF pc = "parse_text_node" /\ pc' = "parse_nodes"
       THEN Held' = Append(Held, <<"Text", content>>)
       ELSE IF pc \in {"parse_comment_node", "comment_loop"} /\ pc' = "parse_nodes"
       THEN GrowsBy(Held, Held', "Comment")
       ELSE IF pc = "parse_nodes" /\ pc' = "parse_node"
       THEN GrowsBy(Held, Held', "Element")
       ELSE IF pc \in {"parse_node", "parse_attributes"}
       THEN /\ Len(Held') = Len(Held)
            /\ SubSeq(Held', 1, Len(Held) - 1) = SubSeq(Held, 1, Len(Held) - 1)
            /\ Held'[Len(Held)][1] = "Element"
       ELSE Held' = Held]_vars

\* <p><b>x</p>x a</b>: b is demoted, its child hoisted; the four nodes are
\* returned once each, in scan order
C19_Witness ==
    /\ pc = "done"
    /\ input = MisnestDoc(<<"p">>, <<"b">>, <<"x">>, <<"x", " ", "a">>)
    /\ Held = << <<"Element", <<"p">>, EmptyAttrMap>>,
                 <<"Element", <<"b">>, EmptyAttrMap>>,
                 <<"Text", <<"x">>>>, <<"Text", <<"x", " ", "a">>>> >>
    /\ Len(result[1].children) = 3

----------------------------------------------------------------------------
(* An element closed by its own name *)

\* the element about to be reconciled had its child list ended by a closing
\* tag of its own name: the name pushed last is its own, and the return was
\* not that of the end of the input (input left, or a document that ends with
\* the closing tag of its last element)
ClosedByOwnName ==
    /\ pc = "reconcile"
    /\ node_q # <<>>
    /\ node_q[Len(node_q)] = Top(stack).tagname
    /\ chars # <<>> \/ input \in StaleDocs

\* C20: an element whose child list was ended by a closing tag of its own name
\* is never demoted, whatever the queue holds from earlier closing tags: it is
\* inserted after its siblings with all its children.
C20_OwnCloseNeverDemoted ==
    [][ClosedByOwnName =>
          Top(stack').nodes =
              Append(Top(Pop(stack)).nodes,
                     Element(Top(stack).tagname, Top(stack).attributes,
                             Top(stack).children))]_vars

----------------------------------------------------------------------------
(* Empty Text nodes *)

RECURSIVE NoEmptyText(_)
NoEmptyText(nodes) ==
    \A i \in 1..Len(nodes) :
        /\ IsText(nodes[i]) => nodes[i].node_type[2] # <<>>
        /\ NoEmptyText(nodes[i].children)

\* C21: every Text node of the forest returned by parse_nodes holds at least
\* one character.
C21_NoEmptyText == pc = "done" => NoEmptyText(result)

====
